---- MODULE Spec2Model ----
(***************************************************************************)
(* Shopify "connect your shop" flow of backend/main.py and                 *)
(* backend/shopify_auth.py: shop normalisation and validation, the         *)
(* in-memory OAuth state registry, callback signature verification, the    *)
(* token exchange and the file-backed credential store (data/stores.json). *)
(*                                                                         *)
(* Strings are sequences of one-character strings, so that strip, lower,   *)
(* split and the hostname regular expression are computed character by     *)
(* character.  Request handlers are FastAPI "def" endpoints: they run in a *)
(* thread pool, so handlers of different requests interleave between       *)
(* their accesses to the shared registry and the shared file.              *)
(***************************************************************************)
EXTENDS Integers, Sequences, FiniteSets, TLC

VARIABLES configured, oauth_states, issued, consumed, file, pc, loc

vars == <<configured, oauth_states, issued, consumed, file, pc, loc>>

(* ------------------------------ bounds -------------------------------- *)

\* Number of state values secrets.token_hex hands out in one run.
MaxStates == 2

\* Request worker threads serving handlers at the same time.
NumProcs == 2

Procs == 1..NumProcs

(* ------------------------------ strings ------------------------------- *)

\* Python None, for values that are strings otherwise.
None == <<"None">>

UpperChars == <<"A","B","C","D","E","F","G","H","I","J","K","L","M",
                "N","O","P","Q","R","S","T","U","V","W","X","Y","Z">>

LowerChars == <<"a","b","c","d","e","f","g","h","i","j","k","l","m",
                "n","o","p","q","r","s","t","u","v","w","x","y","z">>

DigitChars == <<"0","1","2","3","4","5","6","7","8","9">>

Range(s) == { s[i] : i \in DOMAIN s }

\* str.lower() on one character.
LowerChar(c) ==
    IF c \in Range(UpperChars)
    THEN LowerChars[CHOOSE i \in DOMAIN UpperChars : UpperChars[i] = c]
    ELSE c

\* str.lower()
Lower(s) == [i \in DOMAIN s |-> LowerChar(s[i])]

Whitespace == {" ", "\n", "\t", "\r"}

RECURSIVE RStripSet(_, _)
\* str.rstrip(chars): drop every trailing character that is in cs.
RStripSet(s, cs) ==
    IF s # <<>> /\ s[Len(s)] \in cs
    THEN RStripSet(SubSeq(s, 1, Len(s) - 1), cs)
    ELSE s

RECURSIVE LStripSet(_, _)
LStripSet(s, cs) ==
    IF s # <<>> /\ s[1] \in cs THEN LStripSet(Tail(s), cs) ELSE s

\* str.strip()
Strip(s) == LStripSet(RStripSet(s, Whitespace), Whitespace)

\* Does sub occur in s at index i (1-based)?
OccursAt(s, sub, i) ==
    /\ i >= 1
    /\ i + Len(sub) - 1 <= Len(s)
    /\ SubSeq(s, i, i + Len(sub) - 1) = sub

\* str.find, 1-based; 0 when sub does not occur.
Find(s, sub) ==
    IF \E i \in 1..Len(s) : OccursAt(s, sub, i)
    THEN CHOOSE i \in 1..Len(s) :
            /\ OccursAt(s, sub, i)
            /\ \A j \in 1..(i - 1) : ~OccursAt(s, sub, j)
    ELSE 0

\* sub in s
Contains(s, sub) == Find(s, sub) # 0

\* s.split(sub)[0]
SplitFirst(s, sub) ==
    IF Contains(s, sub) THEN SubSeq(s, 1, Find(s, sub) - 1) ELSE s

RECURSIVE SplitLast(_, _)
\* s.split(sub)[-1]: the separators are taken left to right, without overlap.
SplitLast(s, sub) ==
    IF Contains(s, sub)
    THEN SplitLast(SubSeq(s, Find(s, sub) + Len(sub), Len(s)), sub)
    ELSE s

MYSHOPIFY == <<".","m","y","s","h","o","p","i","f","y",".","c","o","m">>

\* Mutant: the case of the input is kept.
normalize_shop_keepcase(shop) ==
    LET s == Strip(shop)
    IN  IF s = <<>> THEN <<>>
        ELSE IF Contains(s, MYSHOPIFY)
        THEN RStripSet(SplitLast(SplitFirst(s, MYSHOPIFY), <<"/","/">>), {"/"}) \o MYSHOPIFY
        ELSE s \o MYSHOPIFY

\* shopify_auth.normalize_shop
normalize_shop(shop) ==
    LET s == Lower(Strip(shop))
    IN  IF s = <<>> THEN <<>>
        ELSE IF Contains(s, MYSHOPIFY)
        THEN RStripSet(SplitLast(SplitFirst(s, MYSHOPIFY), <<"/","/">>), {"/"}) \o MYSHOPIFY
        ELSE s \o MYSHOPIFY

IsAlNum(c) == c \in Range(UpperChars) \cup Range(LowerChars) \cup Range(DigitChars)

\* ^[a-zA-Z0-9][a-zA-Z0-9\-]*\.myshopify\.com
\* anchored at both ends of s.
MatchesHostname(s) ==
    /\ Len(s) >= Len(MYSHOPIFY) + 1
    /\ SubSeq(s, Len(s) - Len(MYSHOPIFY) + 1, Len(s)) = MYSHOPIFY
    /\ IsAlNum(s[1])
    /\ \A i \in 2..(Len(s) - Len(MYSHOPIFY)) : IsAlNum(s[i]) \/ s[i] = "-"

\* shopify_auth.is_valid_shop_hostname: re.match with "$", which matches at the
\* end of the string and also just before a newline that ends the string.
is_valid_shop_hostname(shop) ==
    \/ MatchesHostname(shop)
    \/ /\ shop # <<>>
       /\ shop[Len(shop)] = "\n"
       /\ MatchesHostname(SubSeq(shop, 1, Len(shop) - 1))

(* --------------------------- request inputs --------------------------- *)

\* Shop identifiers a client sends: a bare label in upper case, the full URL
\* form of a longer label, and the empty string (also what params.get("shop",
\* "") gives for a callback without a shop parameter).
RawShops == { <<"A">>,
              <<"h","t","t","p","s",":","/","/","b","b">> \o MYSHOPIFY \o <<"/">>,
              <<>> }

\* Access tokens the platform's token endpoint returns.
Tokens == { <<"t","1">>, <<"t","2">> }

\* State values: token_hex(16) draws 128 random bits, so a value handed out is
\* one never handed out before; 0 stands for a request without a state.
States == 1..MaxStates

NoState == 0

\* A state value token_hex never hands out (a guess, a value of a previous run).
Unissued == MaxStates + 1

SHOPIFY_CLIENT_SECRET == "secret"

(* ------------------------ signature verification ---------------------- *)

\* HMAC-SHA256 as a collision-free keyed function of the message.
Hmac(secret, message) == <<secret, message>>

\* sorted(rest.items()) for the parameter names of a callback.
KeyOrder == <<"code", "shop", "state">>

\* The signed bytes: the pairs k=v of every parameter but hmac, in the order
\* of their names, each value in the encoding enc ("plain": as decoded).
Serialise(params, enc) ==
    LET keys == SelectSeq(KeyOrder, LAMBDA k : k \in DOMAIN params)
    IN  [i \in DOMAIN keys |-> <<keys[i], enc, params[keys[i]]>>]

\* "&".join(f"{k}={v}" for k, v in sorted(rest.items())), hmac left out.
Message(params) == Serialise(params, "plain")

\* shopify_auth.verify_hmac
verify_hmac(query_params, secret) ==
    IF "hmac" \notin DOMAIN query_params
    THEN FALSE
    ELSE query_params["hmac"] = Hmac(secret, Message(query_params))

\* The bytes of the raw query string without its hmac pair: equal to the
\* re-serialised parameters unless a value arrived percent-encoded.
RawMessage(params, enc) == Serialise(params, enc)

\* shopify_auth.verify_hmac_raw_query: the signature checked against the raw,
\* undecoded query string.
verify_hmac_raw_query(params, enc, secret) ==
    IF "hmac" \notin DOMAIN params
    THEN FALSE
    ELSE params["hmac"] = Hmac(secret, RawMessage(params, enc))

\* main.py line 177
SignatureOk(params, enc, secret) ==
    verify_hmac_raw_query(params, enc, secret) \/ verify_hmac(params, secret)

\* dict(request.query_params) of a callback: each parameter present or not.
\* shop, state and code are values or None / NoState / FALSE for "absent".
QueryParams(shop, state, code, hmac) ==
    [k \in  (IF shop = None THEN {} ELSE {"shop"})
       \cup (IF state = NoState THEN {} ELSE {"state"})
       \cup (IF code THEN {"code"} ELSE {})
       \cup (IF hmac = None THEN {} ELSE {"hmac"})
     |-> CASE k = "shop" -> shop
           [] k = "state" -> state
           [] k = "code" -> "c"
           [] OTHER -> hmac]

\* Signatures a callback can carry: none, the platform's signature of these
\* very parameters (over the decoded or over the raw form), a signature made
\* with another key, and a signature the platform made for other parameters.
Signatures(shop, state, code, enc) ==
    LET own == QueryParams(shop, state, code, None)
    IN  { None,
          Hmac(SHOPIFY_CLIENT_SECRET, Message(own)),
          Hmac(SHOPIFY_CLIENT_SECRET, RawMessage(own, enc)),
          Hmac("other", Message(own)) }
        \cup { Hmac(SHOPIFY_CLIENT_SECRET, Message(QueryParams(sh, st, code, None))) :
                 sh \in RawShops, st \in States }

(* --------------------------- credential file -------------------------- *)

EmptyDict == <<>>

\* Mutant: the dict written holds the new entry alone.
PutAlone(data, shop, token) == [s \in {shop} |-> token]

\* data[shop] = access_token
Put(data, shop, token) ==
    [s \in DOMAIN data \cup {shop} |-> IF s = shop THEN token ELSE data[s]]

\* del data[shop]
Remove(data, shop) == [s \in DOMAIN data \ {shop} |-> data[s]]

RECURSIVE EntriesLen(_, _)
EntriesLen(data, keys) ==
    IF keys = {} THEN 0
    ELSE LET k == CHOOSE x \in keys : TRUE
         IN  Len(k) + Len(data[k]) + 8 + EntriesLen(data, keys \ {k})

\* len(json.dumps(data, indent=2)): "{}" for the empty dict, else one line
\*   "k": "v" per entry, indented by two, joined by ",\n", inside "{\n" "\n}".
JsonLen(data) ==
    IF DOMAIN data = {} THEN 2
    ELSE 4 + EntriesLen(data, DOMAIN data) + 2 * (Cardinality(DOMAIN data) - 1)

\* The file data/stores.json: whether it exists, its length in bytes, and what
\* json.loads makes of its bytes (a dict, or an error when parsed is FALSE).
NoFile == [exists |-> FALSE, size |-> 0, parsed |-> FALSE, data |-> EmptyDict]

\* open(path, "w"): the file is created or truncated to no bytes.
Truncated == [exists |-> TRUE, size |-> 0, parsed |-> FALSE, data |-> EmptyDict]

\* f.write(text) at offset 0 through the descriptor a "w" open returned: the
\* bytes of the text replace the first bytes of the file; whatever another
\* writer put beyond them since the open stays.
Written(f, data) ==
    IF JsonLen(data) >= f.size
    THEN [exists |-> TRUE, size |-> JsonLen(data), parsed |-> TRUE, data |-> data]
    ELSE [exists |-> TRUE, size |-> f.size, parsed |-> FALSE, data |-> EmptyDict]

(* ------------------------------- state -------------------------------- *)

Readers == {"connected_shops", "chat"}

\* The locals of a handler; between requests, what the last one answered.
\*   h       the endpoint being served
\*   ok      the callback's signature verified (main.py line 177)
\*   st      the state parameter (callback), the state issued (start)
\*   inc     incoming_shop (main.py line 182)
\*   code    the callback carries a code
\*   shop    what the registry's pop returned (callback); the normalised
\*           shop (start, disconnect)
\*   tok     the exchanged access token
\*   data    the dict save_token / remove_shop is about to write
\*   status  the HTTP status answered, 0 while none
\*   detail  the answer's detail
Fresh ==
    [h |-> "none", ok |-> FALSE, st |-> NoState, inc |-> <<>>,
     code |-> FALSE, shop |-> None, tok |-> None, data |-> EmptyDict,
     status |-> 0, detail |-> ""]

\* A handler's answer: its locals are gone, the status and detail stay, with
\* the state and shop the request was about.
Answer(l, status, detail) ==
    [Fresh EXCEPT !.h = l.h, !.st = l.st, !.shop = l.shop, !.ok = l.ok,
                  !.status = status, !.detail = detail]

Init ==
    /\ configured \in BOOLEAN
    /\ oauth_states = <<>>
    /\ issued = <<>>
    /\ consumed = [s \in States |-> 0]
    /\ file = NoFile
    /\ pc = [p \in Procs |-> "idle"]
    /\ loc = [p \in Procs |-> Fresh]

Respond(p, status, detail) ==
    /\ pc' = [pc EXCEPT ![p] = "idle"]
    /\ loc' = [loc EXCEPT ![p] = Answer(loc[p], status, detail)]

Goto(p, label, l) ==
    /\ pc' = [pc EXCEPT ![p] = label]
    /\ loc' = [loc EXCEPT ![p] = l]

(* ------------------------- GET /auth/shopify -------------------------- *)

\* shopify_config: the values SHOPIFY_APP_URL can have in the environment
\* (unset is the default; "h" stands for a base URL such as http://host).
AppUrlEnv == { <<"h">>, <<"h", "/">>, <<" ", "h", "/", "/", " ">>, <<"/">>, <<>> }

\* The default of os.getenv("SHOPIFY_APP_URL", ...) and of line 22.
DefaultAppUrl == <<"l">>

\* shopify_config lines 21-22: stripped, trailing slashes dropped, the default
\* when nothing is left.
SHOPIFY_APP_URL(env) ==
    LET raw == RStripSet(Strip(env), {"/"})
    IN  IF raw = <<>> THEN DefaultAppUrl ELSE raw

\* shopify_config line 25
SHOPIFY_REDIRECT_URI(env) == SHOPIFY_APP_URL(env) \o <<"/", "c", "b">>

\* The redirect URIs build_authorize_url is called with: the configured one
\* (main.py line 163) and, for a caller of its own, any with slashes at its end.
RedirectUris ==
    { SHOPIFY_REDIRECT_URI(env) : env \in AppUrlEnv }
    \cup { <<"h", "/", "c", "b", "/">>, <<"h", "/", "c", "b", "/", "/">> }

\* shopify_auth.build_authorize_url, line 76: the redirect_uri parameter of the
\* authorization URL.
redirect_uri_param(redirect_uri) == RStripSet(redirect_uri, {"/"})

\* Mutant: a generator that repeats itself.
token_hex_fixed == CHOOSE s \in States : \A t \in States : s <= t

\* secrets.token_hex(16): the next value never handed out before.
token_hex == Len(issued) + 1

\* Mutant: the registry is replaced by one holding the new entry alone.
IssueAlone(states, state, shop) == [s \in {state} |-> shop]

\* shopify_auth.build_authorize_url: _oauth_states[state] = shop
Issue(states, state, shop) ==
    [s \in DOMAIN states \cup {state} |-> IF s = state THEN shop ELSE states[s]]

\* Mutant: the state is registered for the shop as the request gave it.
auth_shopify_start_raw(p) ==
    /\ pc[p] = "idle"
    /\ \E raw \in RawShops :
        LET normalized == normalize_shop(raw)
            l == [Fresh EXCEPT !.h = "start"]
        IN  IF ~configured
            THEN /\ pc' = [pc EXCEPT ![p] = "idle"]
                 /\ loc' = [loc EXCEPT ![p] = Answer(l, 503, "Shopify app not configured")]
                 /\ UNCHANGED <<oauth_states, issued>>
            ELSE IF ~is_valid_shop_hostname(normalized)
            THEN /\ pc' = [pc EXCEPT ![p] = "idle"]
                 /\ loc' = [loc EXCEPT ![p] =
                        Answer([l EXCEPT !.shop = normalized], 400, "Invalid shop")]
                 /\ UNCHANGED <<oauth_states, issued>>
            ELSE /\ token_hex \in States
                 /\ oauth_states' = Issue(oauth_states, token_hex, raw)
                 /\ issued' = Append(issued, raw)
                 /\ pc' = [pc EXCEPT ![p] = "idle"]
                 /\ loc' = [loc EXCEPT ![p] =
                        Answer([l EXCEPT !.st = token_hex, !.shop = raw],
                               302, "authorize")]
    /\ UNCHANGED <<configured, consumed, file>>

\* Mutant: the authorization URL is built, and its state registered, before
\* the shop is validated.
auth_shopify_start_early(p) ==
    /\ pc[p] = "idle"
    /\ \E raw \in RawShops :
        LET normalized == normalize_shop(raw)
            l == [Fresh EXCEPT !.h = "start"]
        IN  IF ~configured
            THEN /\ pc' = [pc EXCEPT ![p] = "idle"]
                 /\ loc' = [loc EXCEPT ![p] = Answer(l, 503, "Shopify app not configured")]
                 /\ UNCHANGED <<oauth_states, issued>>
            ELSE /\ token_hex \in States
                 /\ oauth_states' = Issue(oauth_states, token_hex, normalized)
                 /\ issued' = Append(issued, normalized)
                 /\ pc' = [pc EXCEPT ![p] = "idle"]
                 /\ loc' = [loc EXCEPT ![p] =
                        IF ~is_valid_shop_hostname(normalized)
                        THEN Answer([l EXCEPT !.shop = normalized], 400, "Invalid shop")
                        ELSE Answer([l EXCEPT !.st = token_hex, !.shop = normalized],
                                    302, "authorize")]
    /\ UNCHANGED <<configured, consumed, file>>

\* main.auth_shopify_start: the answer keeps the normalised shop once it was
\* computed (line 158), and the state build_authorize_url registered.
auth_shopify_start(p) ==
    /\ pc[p] = "idle"
    /\ \E raw \in RawShops :
        LET normalized == normalize_shop(raw)
            l == [Fresh EXCEPT !.h = "start"]
        IN  IF ~configured
            THEN /\ pc' = [pc EXCEPT ![p] = "idle"]
                 /\ loc' = [loc EXCEPT ![p] = Answer(l, 503, "Shopify app not configured")]
                 /\ UNCHANGED <<oauth_states, issued>>
            ELSE IF ~is_valid_shop_hostname(normalized)
            THEN /\ pc' = [pc EXCEPT ![p] = "idle"]
                 /\ loc' = [loc EXCEPT ![p] =
                        Answer([l EXCEPT !.shop = normalized], 400, "Invalid shop")]
                 /\ UNCHANGED <<oauth_states, issued>>
            ELSE /\ token_hex \in States
                 /\ oauth_states' = Issue(oauth_states, token_hex, normalized)
                 /\ issued' = Append(issued, normalized)
                 /\ pc' = [pc EXCEPT ![p] = "idle"]
                 /\ loc' = [loc EXCEPT ![p] =
                        Answer([l EXCEPT !.st = token_hex, !.shop = normalized],
                               302, "authorize")]
    /\ UNCHANGED <<configured, consumed, file>>

(* --------------------- GET /auth/shopify/callback --------------------- *)

\* What lines 175-185 read of a callback request: whether its signature
\* verifies, its state, its normalised shop, whether it carries a code; for
\* every combination of parameters, encoding and signature.
CallbackInputs ==
    { [ok   |-> SignatureOk(QueryParams(r[1], r[2], r[3], r[5]), r[4], SHOPIFY_CLIENT_SECRET),
       st   |-> r[2],
       inc  |-> normalize_shop(IF r[1] = None THEN <<>> ELSE r[1]),
       code |-> r[3]] :
      r \in UNION { { <<shop, state, code, enc, hmac>> :
                        hmac \in Signatures(shop, state, code, enc) } :
                    shop \in RawShops \cup {None},
                    state \in States \cup {NoState, Unissued},
                    code \in BOOLEAN,
                    enc \in {"plain", "pct"} } }

\* Mutant: the signature is checked before the configuration.
GateSignatureFirst(conf, ok) ==
    IF ~ok THEN 400
    ELSE IF ~conf THEN 503
    ELSE 0

\* Mutant: a failed verification is not acted on.
GateNoSignature(conf, ok) == IF ~conf THEN 503 ELSE 0

\* main.auth_shopify_callback, lines 173-179: the first checks of a callback,
\* in their order; 0 when both pass.
Gate(conf, ok) ==
    IF ~conf THEN 503
    ELSE IF ~ok THEN 400
    ELSE 0

GateDetail(status) ==
    IF status = 503 THEN "Shopify app not configured" ELSE "Invalid HMAC"

\* main.auth_shopify_callback, lines 173-179, for a request among inputs:
\* configuration is checked, then the signature.  The state the request names
\* is one the service handed out, none, or one it never hands out.  Shop and
\* code are read (lines 182, 185) only once the signature has verified.
callback_begin(p, inputs) ==
    /\ pc[p] = "idle"
    /\ \E l \in { [Fresh EXCEPT !.h = "callback", !.ok = r.ok, !.st = r.st,
                                !.inc = IF r.ok THEN r.inc ELSE <<>>,
                                !.code = r.ok /\ r.code] :
                  r \in { x \in inputs :
                            x.st \in (1..Len(issued)) \cup {NoState, Unissued} } } :
        IF Gate(configured, l.ok) # 0
        THEN /\ pc' = [pc EXCEPT ![p] = "idle"]
             /\ loc' = [loc EXCEPT ![p] =
                          Answer(l, Gate(configured, l.ok),
                                 GateDetail(Gate(configured, l.ok)))]
        ELSE Goto(p, "cb_pop", l)
    /\ UNCHANGED <<configured, oauth_states, issued, consumed, file>>

\* main.auth_shopify_callback, lines 173-179, for any request.
callback_verify(p) == callback_begin(p, CallbackInputs)

\* _oauth_states.pop(state, None): the value to return.
Pop(states, state) == IF state \in DOMAIN states THEN states[state] ELSE None

\* Mutant: a lookup that leaves the entry in place (get instead of pop).
PoppedKeep(states, state) == states

\* _oauth_states.pop(state, None): the dict afterwards.
Popped(states, state) == [s \in DOMAIN states \ {state} |-> states[s]]

\* "not shop"
Falsy(shop) == shop = None \/ shop = <<>>

\* Mutant: the bound shop is not compared with the incoming shop.
StateCheckFailsNoCompare(shop, incoming_shop) == Falsy(shop)

\* main.py line 183: not shop or shop != incoming_shop
StateCheckFails(shop, incoming_shop) == Falsy(shop) \/ shop # incoming_shop

\* Mutant: a mismatch is reported as such.
StateRejectionDistinct(shop, incoming_shop) ==
    IF Falsy(shop) THEN "Invalid or expired state" ELSE "Shop mismatch"

\* main.py line 184: the detail of the rejection at the state check.
StateRejection(shop, incoming_shop) == "Invalid or expired state"

\* main.auth_shopify_callback, lines 180-187: the state is popped, then
\* compared with the incoming shop, then the code is required.
callback_consume(p) ==
    /\ pc[p] = "cb_pop"
    /\ LET shop == Pop(oauth_states, loc[p].st)
           l == [loc[p] EXCEPT !.shop = shop]
       IN  /\ oauth_states' = Popped(oauth_states, loc[p].st)
           /\ consumed' = IF shop = None THEN consumed
                          ELSE [consumed EXCEPT ![loc[p].st] = @ + 1]
           /\ IF StateCheckFails(shop, loc[p].inc)
              THEN /\ pc' = [pc EXCEPT ![p] = "idle"]
                   /\ loc' = [loc EXCEPT ![p] =
                                Answer(l, 400, StateRejection(shop, loc[p].inc))]
              ELSE IF ~loc[p].code
              THEN /\ pc' = [pc EXCEPT ![p] = "idle"]
                   /\ loc' = [loc EXCEPT ![p] = Answer(l, 400, "Missing code")]
              ELSE Goto(p, "cb_exchange", l)
    /\ UNCHANGED <<configured, issued, file>>

\* Mutant: a failed exchange puts the state back, for the merchant to retry.
callback_exchange_restore(p) ==
    /\ pc[p] = "cb_exchange"
    /\ \E answer \in Tokens \cup {None} :
        IF answer = None
        THEN /\ Respond(p, 502, "Could not get token")
             /\ oauth_states' = Issue(oauth_states, loc[p].st, loc[p].shop)
        ELSE /\ Goto(p, "gs", [loc[p] EXCEPT !.tok = answer])
             /\ UNCHANGED oauth_states
    /\ UNCHANGED <<configured, issued, consumed, file>>

\* Mutant: a failed exchange is swallowed and the callback goes on without a
\* token.
callback_exchange_swallow(p) ==
    /\ pc[p] = "cb_exchange"
    /\ \E answer \in Tokens \cup {None} :
        Goto(p, "gs", [loc[p] EXCEPT !.tok = answer])
    /\ UNCHANGED <<configured, oauth_states, issued, consumed, file>>

\* shopify_auth.exchange_code_for_token, called once at main.py line 189: the
\* platform answers with a token, or the call raises (status, body, network).
callback_exchange(p) ==
    /\ pc[p] = "cb_exchange"
    /\ \E answer \in Tokens \cup {None} :
        IF answer = None
        THEN Respond(p, 502, "Could not get token")
        ELSE Goto(p, "gs", [loc[p] EXCEPT !.tok = answer])
    /\ UNCHANGED <<configured, oauth_states, issued, consumed, file>>

(* ----------------------- shopify_auth: the file ------------------------ *)

\* shopify_auth.remove_shop, after its read: not connected when the shop is
\* not a key, else the entry is deleted and the dict written back.
remove_shop(p, data) ==
    IF loc[p].shop \in DOMAIN data
    THEN Goto(p, "w_open", [loc[p] EXCEPT !.data = Remove(data, loc[p].shop)])
    ELSE Respond(p, 404, "Store not found or not connected")

\* What a handler does with the dict get_stored_shops returned.
\*   callback (save_token, line 39): data[shop] = access_token, then the write;
\*   api_connected_shops: answers the keys;
\*   chat: builds the store context from the first shop, then asks the model,
\*         which answers or raises;
\*   api_disconnect: remove_shop.
Loaded(p, data) ==
    CASE loc[p].h = "callback" ->
            Goto(p, "w_open", [loc[p] EXCEPT !.data = Put(data, loc[p].shop, loc[p].tok)])
      [] loc[p].h = "connected_shops" ->
            Respond(p, 200, "shops")
      [] loc[p].h = "chat" ->
            \E replied \in BOOLEAN :
                IF replied THEN Respond(p, 200, "reply")
                ELSE Respond(p, 500, "Chat failed")
      [] OTHER -> remove_shop(p, data)

\* STORES_FILE.read_text() and json.loads: the bytes there are now are parsed;
\* bytes that are no JSON document raise, and the request answers 500.
ReadText(p) ==
    IF file.parsed
    THEN Loaded(p, file.data)
    ELSE Respond(p, 500, "JSONDecodeError")

\* get_stored_shops, file present: _ensure_stores_file finds it, read_text
\* reads it.  (The file is never deleted, so the check cannot go stale.)
get_stored_shops(p) ==
    /\ pc[p] = "gs"
    /\ file.exists
    /\ ReadText(p)
    /\ UNCHANGED <<configured, oauth_states, issued, consumed, file>>

\* _ensure_stores_file, line 25: STORES_FILE.exists() is False.
ensure_missing(p) ==
    /\ pc[p] = "gs"
    /\ ~file.exists
    /\ Goto(p, "gs_open", loc[p])
    /\ UNCHANGED <<configured, oauth_states, issued, consumed, file>>

\* _ensure_stores_file, line 26: write_text("{}") opens the file for writing.
ensure_open(p) ==
    /\ pc[p] = "gs_open"
    /\ file' = Truncated
    /\ Goto(p, "gs_write", loc[p])
    /\ UNCHANGED <<configured, oauth_states, issued, consumed>>

\* _ensure_stores_file, line 26: write_text("{}") writes and closes.
ensure_write(p) ==
    /\ pc[p] = "gs_write"
    /\ file' = Written(file, EmptyDict)
    /\ Goto(p, "gs_read", loc[p])
    /\ UNCHANGED <<configured, oauth_states, issued, consumed>>

\* get_stored_shops, line 33, after _ensure_stores_file created the file.
read_created(p) ==
    /\ pc[p] = "gs_read"
    /\ ReadText(p)
    /\ UNCHANGED <<configured, oauth_states, issued, consumed, file>>

\* save_token, lines 40-41: _ensure_stores_file (the file is there), then
\* write_text opens the file for writing, which truncates it.
write_open(p) ==
    /\ pc[p] = "w_open"
    /\ file' = Truncated
    /\ Goto(p, "w_write", loc[p])
    /\ UNCHANGED <<configured, oauth_states, issued, consumed>>

\* save_token, line 41: write_text writes json.dumps(data, indent=2) and
\* closes; the callback then redirects (line 193), disconnect answers ok.
write_text(p) ==
    /\ pc[p] = "w_write"
    /\ file' = Written(file, loc[p].data)
    /\ IF loc[p].h = "callback"
       THEN Respond(p, 302, "/connect?connected=1")
       ELSE Respond(p, 200, "ok")
    /\ UNCHANGED <<configured, oauth_states, issued, consumed>>

(* ------------------------------ readers ------------------------------- *)

\* main.api_connected_shops
api_connected_shops(p) ==
    /\ pc[p] = "idle"
    /\ Goto(p, "gs", [Fresh EXCEPT !.h = "connected_shops"])
    /\ UNCHANGED <<configured, oauth_states, issued, consumed, file>>

\* main.chat
chat(p) ==
    /\ pc[p] = "idle"
    /\ Goto(p, "gs", [Fresh EXCEPT !.h = "chat"])
    /\ UNCHANGED <<configured, oauth_states, issued, consumed, file>>

(* ------------------------ POST /api/disconnect ------------------------ *)

\* main.api_disconnect: normalises, then shopify_auth.remove_shop
api_disconnect(p) ==
    /\ pc[p] = "idle"
    /\ \E raw \in RawShops :
        Goto(p, "gs", [Fresh EXCEPT !.h = "disconnect", !.shop = normalize_shop(raw)])
    /\ UNCHANGED <<configured, oauth_states, issued, consumed, file>>

(* --------------------------- specifications --------------------------- *)

\* The steps inside shopify_auth's file functions.
FileStep(p) ==
    \/ get_stored_shops(p)
    \/ ensure_missing(p)
    \/ ensure_open(p)
    \/ ensure_write(p)
    \/ read_created(p)
    \/ write_open(p)
    \/ write_text(p)

\* The install flow: start and callback requests.
InstallStep(p) ==
    \/ auth_shopify_start(p)
    \/ callback_verify(p)
    \/ callback_consume(p)
    \/ callback_exchange(p)

\* The install flow under concurrent requests.
Next ==
    \E p \in Procs :
        \/ InstallStep(p)
        \/ FileStep(p)

Spec == Init /\ [][Next]_vars

\* The callbacks the platform itself sends after a merchant approved: signed,
\* with a code, for a shop and a state of a start request.
PlatformInputs ==
    { r \in CallbackInputs : r.ok /\ r.code /\ r.st \in States /\ r.inc # <<>> }

\* main.auth_shopify_callback for a callback of the platform.
platform_callback(p) == callback_begin(p, PlatformInputs)

\* The credential store and all its clients: installs (start, then the
\* platform's callback), the readers and disconnect, on a configured service.
NextStore ==
    \E p \in Procs :
        \/ auth_shopify_start(p)
        \/ platform_callback(p)
        \/ callback_consume(p)
        \/ callback_exchange(p)
        \/ FileStep(p)
        \/ api_connected_shops(p)
        \/ chat(p)
        \/ api_disconnect(p)

InitStore == Init /\ configured

SpecStore == InitStore /\ [][NextStore]_vars

\* The server process dies and is started again: every request in flight is
\* gone, the in-memory registry is empty, the file is as the last write call
\* left it.
crash ==
    /\ pc' = [p \in Procs |-> "idle"]
    /\ loc' = [p \in Procs |-> Fresh]
    /\ oauth_states' = <<>>
    /\ UNCHANGED <<configured, issued, consumed, file>>

NextCrash == Next \/ crash

SpecCrash == Init /\ [][NextCrash]_vars

(* ------------------- shopify_auth's shop functions -------------------- *)

\* Longest label the shop inputs below are built from.
MaxLabel == 2

\* Characters of a label: letters in both cases, a digit, a hyphen, a dot.
LabelChars == {"a", "A", "b", "1", "-", "."}

Labels == UNION { [1..n -> LabelChars] : n \in 0..MaxLabel }

\* What a client puts before a label: nothing, a scheme, a blank.
Prefixes == { <<>>, <<"h","t","t","p","s",":","/","/">>, <<" ">> }

\* What follows the label: nothing, the platform domain in lower and in upper
\* case, a domain that is not the platform's.
Suffixes == { <<>>,
              MYSHOPIFY,
              <<".","M","Y","S","H","O","P","I","F","Y",".","C","O","M">>,
              <<".","m","y","s","h","o","p","i","f","y",".","c","o">> }

\* What ends the input: nothing, a slash, a newline, a path.
Tails == { <<>>, <<"/">>, <<"\n">>, <<"/","x">> }

\* The strings normalize_shop and is_valid_shop_hostname are called with.
ShopInputs ==
    { pre \o lab \o suf \o tl :
        pre \in Prefixes, lab \in Labels, suf \in Suffixes, tl \in Tails }

\* A call frame of one of the two functions: h the function, inc its
\* argument, shop the string normalize_shop returned, ok the truth value
\* is_valid_shop_hostname returned.
InitShop ==
    /\ configured = TRUE
    /\ oauth_states = <<>>
    /\ issued = <<>>
    /\ consumed = [s \in States |-> 0]
    /\ file = NoFile
    /\ pc = [p \in Procs |-> "idle"]
    /\ \E x \in ShopInputs : loc = [p \in Procs |-> [Fresh EXCEPT !.inc = x]]

\* normalize_shop(shop) on the input.
normalize_call(p) ==
    /\ loc[p].h = "none"
    /\ loc' = [loc EXCEPT ![p] = [loc[p] EXCEPT !.h = "normalize_shop",
                                                !.shop = normalize_shop(loc[p].inc)]]
    /\ UNCHANGED <<configured, oauth_states, issued, consumed, file, pc>>

\* normalize_shop on what an earlier normalize_shop returned.
normalize_again(p) ==
    /\ loc[p].h = "none"
    /\ \E q \in Procs :
        /\ loc[q].h = "normalize_shop"
        /\ loc' = [loc EXCEPT ![p] = [loc[p] EXCEPT !.h = "normalize_shop",
                                               !.inc = loc[q].shop,
                                               !.shop = normalize_shop(loc[q].shop)]]
    /\ UNCHANGED <<configured, oauth_states, issued, consumed, file, pc>>

\* is_valid_shop_hostname(shop) on the input.
validate_call(p) ==
    /\ loc[p].h = "none"
    /\ loc' = [loc EXCEPT ![p] = [loc[p] EXCEPT !.h = "is_valid_shop_hostname",
                                                !.ok = is_valid_shop_hostname(loc[p].inc)]]
    /\ UNCHANGED <<configured, oauth_states, issued, consumed, file, pc>>

\* is_valid_shop_hostname on what normalize_shop returned (main.py line 159).
validate_normalized(p) ==
    /\ loc[p].h = "none"
    /\ \E q \in Procs :
        /\ loc[q].h = "normalize_shop"
        /\ loc' = [loc EXCEPT ![p] = [loc[p] EXCEPT !.h = "is_valid_shop_hostname",
                                               !.inc = loc[q].shop,
                                               !.ok = is_valid_shop_hostname(loc[q].shop)]]
    /\ UNCHANGED <<configured, oauth_states, issued, consumed, file, pc>>

NextShop ==
    \E p \in Procs :
        \/ normalize_call(p)
        \/ normalize_again(p)
        \/ validate_call(p)
        \/ validate_normalized(p)

\* The two shop functions called on every input, and on each other's results.
SpecShop == InitShop /\ [][NextShop]_vars

(* ------------------ the credential store, call by call ----------------- *)

\* The shops credentials are stored for: what start requests normalise to.
StoreShops == { normalize_shop(raw) : raw \in RawShops } \ { <<>> }

\* _ensure_stores_file run from its first line to its last with no other call
\* in between: a file that is missing is created with the text "{}".
EnsuredFile(f) == IF f.exists THEN f ELSE Written(Truncated, EmptyDict)

\* get_stored_shops run alone: the dict json.loads returns.
Loads(f) == EnsuredFile(f).data

\* get_token(shop): get_stored_shops().get(normalize_shop(shop))
get_token_result(f, shop) ==
    IF normalize_shop(shop) \in DOMAIN Loads(f)
    THEN Loads(f)[normalize_shop(shop)]
    ELSE None

\* save_token(shop, access_token), from its call to its return.
save_token(p) ==
    /\ loc[p].h = "none"
    /\ EnsuredFile(file).parsed
    /\ \E shop \in StoreShops, access_token \in Tokens :
        /\ file' = Written(Truncated, Put(Loads(file), shop, access_token))
        /\ loc' = [loc EXCEPT ![p] = [Fresh EXCEPT !.h = "save_token",
                                                   !.shop = shop,
                                                   !.tok = access_token]]
    /\ UNCHANGED <<configured, oauth_states, issued, consumed, pc>>

\* remove_shop(shop), from its call to its return: True and the entry
\* deleted when there was one, False otherwise.
remove_shop_seq(p) ==
    /\ loc[p].h = "none"
    /\ EnsuredFile(file).parsed
    /\ \E shop \in StoreShops :
        /\ file' = IF shop \in DOMAIN Loads(file)
                   THEN Written(Truncated, Remove(Loads(file), shop))
                   ELSE EnsuredFile(file)
        /\ loc' = [loc EXCEPT ![p] = [Fresh EXCEPT !.h = "remove_shop",
                                                   !.shop = shop,
                                                   !.ok = shop \in DOMAIN Loads(file)]]
    /\ UNCHANGED <<configured, oauth_states, issued, consumed, pc>>

\* get_token(shop), from its call to its return.
get_token(p) ==
    /\ loc[p].h = "none"
    /\ EnsuredFile(file).parsed
    /\ \E shop \in StoreShops :
        /\ file' = EnsuredFile(file)
        /\ loc' = [loc EXCEPT ![p] = [Fresh EXCEPT !.h = "get_token",
                                                   !.shop = shop,
                                                   !.tok = get_token_result(file, shop)]]
    /\ UNCHANGED <<configured, oauth_states, issued, consumed, pc>>

\* get_stored_shops(), from its call to its return (its keys are what
\* api_connected_shops lists).
get_stored_shops_seq(p) ==
    /\ loc[p].h = "none"
    /\ EnsuredFile(file).parsed
    /\ file' = EnsuredFile(file)
    /\ loc' = [loc EXCEPT ![p] = [Fresh EXCEPT !.h = "get_stored_shops",
                                               !.data = Loads(file)]]
    /\ UNCHANGED <<configured, oauth_states, issued, consumed, pc>>

\* The caller drops what the call returned.
returned(p) ==
    /\ loc[p].h # "none"
    /\ loc' = [loc EXCEPT ![p] = Fresh]
    /\ UNCHANGED <<configured, oauth_states, issued, consumed, file, pc>>

NextSeq ==
    \E p \in Procs :
        \/ save_token(p)
        \/ remove_shop_seq(p)
        \/ get_token(p)
        \/ get_stored_shops_seq(p)
        \/ returned(p)

\* The store's functions called one after the other, each running to its end
\* before the next begins.
SpecSeq == InitStore /\ [][NextSeq]_vars

(* ------------------- shopify_api: the order lookup -------------------- *)

\* Most orders the platform's orders.json answer holds.
MaxOrders == 2

\* An order of the answer: str(o.get("order_number", "")) and
\* str(o.get("email", "")), the email as the customer wrote it.
OrderSet ==
    { <<n, e>> : n \in { <<"1">>, <<"2">> }, e \in { <<"a">>, <<"B">>, <<>> } }

\* r.json().get("orders", [])
OrderLists == UNION { [1..n -> OrderSet] : n \in 0..MaxOrders }

\* The order_number argument: none, a number, a number as "#1", with blanks.
OrderNumberArgs == { <<>>, <<"1">>, <<"#", "1">>, <<" ", "2", " ">> }

\* The email argument: none, an address, one in other case and with a blank.
EmailArgs == { <<>>, <<"a">>, <<"b">>, <<"B", " ">> }

\* shopify_api line 67: str(order_number).strip().lstrip("#")
order_num_of(order_number) == LStripSet(Strip(order_number), {"#"})

\* shopify_api line 66: email.strip().lower()
email_lower_of(email) == Lower(Strip(email))

\* shopify_api lines 69-74: the loop body returns o.  Without an order
\* number the email decides; with one, the number decides, and the order is
\* returned at line 73 or at line 74 whatever its email is.
order_matches(o, order_num, email_lower) ==
    \/ order_num = <<>> /\ Lower(o[2]) = email_lower
    \/ order_num # <<>> /\ Strip(o[1]) = order_num

\* shopify_api lines 68-75: the position in orders of the first order the
\* loop returns, 0 when it returns None.
first_order(orders, order_num, email_lower) ==
    IF \E i \in DOMAIN orders : order_matches(orders[i], order_num, email_lower)
    THEN CHOOSE i \in DOMAIN orders :
            /\ order_matches(orders[i], order_num, email_lower)
            /\ \A j \in 1..(i - 1) : ~order_matches(orders[j], order_num, email_lower)
    ELSE 0

\* A call frame of get_order_by_number_and_email: inc the order_number
\* argument, shop the email argument, data the orders the platform holds.
InitOrder ==
    /\ configured = TRUE
    /\ oauth_states = <<>>
    /\ issued = <<>>
    /\ consumed = [s \in States |-> 0]
    /\ file = NoFile
    /\ pc = [p \in Procs |-> "idle"]
    /\ \E orders \in OrderLists, order_number \in OrderNumberArgs, email \in EmailArgs :
        loc = [p \in Procs |-> [Fresh EXCEPT !.inc = order_number,
                                             !.shop = email,
                                             !.data = orders]]

\* shopify_api.get_order_by_number_and_email, the request answered: ok, and
\* st the position of the order returned, 0 for None.
get_order_by_number_and_email(p) ==
    /\ loc[p].h = "none"
    /\ loc' = [loc EXCEPT ![p] =
                [loc[p] EXCEPT !.h = "get_order_by_number_and_email",
                               !.ok = TRUE,
                               !.st = first_order(loc[p].data,
                                                  order_num_of(loc[p].inc),
                                                  email_lower_of(loc[p].shop))]]
    /\ UNCHANGED <<configured, oauth_states, issued, consumed, file, pc>>

\* shopify_api.get_order_by_number_and_email, lines 76-77: the request
\* failed (status, body, timeout) and None is returned.
get_order_failed(p) ==
    /\ loc[p].h = "none"
    /\ loc' = [loc EXCEPT ![p] =
                [loc[p] EXCEPT !.h = "get_order_by_number_and_email",
                               !.ok = FALSE,
                               !.st = 0]]
    /\ UNCHANGED <<configured, oauth_states, issued, consumed, file, pc>>

NextOrder ==
    \E p \in Procs :
        \/ get_order_by_number_and_email(p)
        \/ get_order_failed(p)

\* The order lookup called with every argument on every answer.
SpecOrder == InitOrder /\ [][NextOrder]_vars

(* ------------------------------ claims -------------------------------- *)

IsCallback(p) == loc[p].h = "callback"

Answered(p) == pc[p] = "idle" /\ loc[p].status # 0

\* The labels of a callback after its state check.
AfterCheck == {"cb_exchange", "gs", "gs_open", "gs_write", "gs_read", "w_open", "w_write"}

\* The callback has executed the pop of line 181.
HasPopped(p) ==
    /\ IsCallback(p)
    /\ \/ pc[p] \in AfterCheck
       \/ Answered(p) /\ loc[p].detail \notin {"Invalid HMAC", "Shopify app not configured"}

\* The callback got past the state check of lines 183-184.
PastStateCheck(p) ==
    /\ IsCallback(p)
    /\ \/ pc[p] \in AfterCheck
       \/ Answered(p) /\ (loc[p].status \in {302, 500, 502} \/ loc[p].detail = "Missing code")

\* The callback was answered 400 "Invalid or expired state".
StateRejected(p) ==
    /\ IsCallback(p)
    /\ Answered(p)
    /\ loc[p].status = 400
    /\ loc[p].detail = "Invalid or expired state"

Issued(st) == st \in 1..Len(issued)

\* C1: of two callbacks that present the same state value, never both get past
\* the state check; the one that does not is answered 400 "Invalid or expired
\* state"; and when neither found the state although it had been issued, a
\* third request had consumed it: a race over a registered state has exactly
\* one winner.
C1_OneWinner ==
    \A p, q \in Procs :
        (/\ p # q
         /\ HasPopped(p)
         /\ HasPopped(q)
         /\ loc[p].st = loc[q].st)
        => /\ ~(PastStateCheck(p) /\ PastStateCheck(q))
           /\ (~PastStateCheck(p) => StateRejected(p))
           /\ (/\ Issued(loc[p].st)
               /\ loc[p].shop = None
               /\ loc[q].shop = None) => consumed[loc[p].st] = 1

\* C1 witness: one callback is at the token exchange, another one that named
\* the same state and the same shop was rejected for not finding the state.
C1_Witness ==
    \E p, q \in Procs :
        /\ p # q
        /\ IsCallback(p)
        /\ pc[p] = "cb_exchange"
        /\ StateRejected(q)
        /\ loc[q].st = loc[p].st
        /\ loc[q].shop = None

\* C2: every state value is consumed at most once, and once consumed it is out
\* of the registry; a consumption that finds a shop finds the shop the value
\* was issued for; a value that was never issued is not found.
C2_ConsumedOnce ==
    /\ \A s \in States :
        /\ consumed[s] <= 1
        /\ consumed[s] = 1 => Issued(s) /\ s \notin DOMAIN oauth_states
        /\ s \in DOMAIN oauth_states => Issued(s) /\ oauth_states[s] = issued[s]
    /\ \A p \in Procs :
        HasPopped(p) =>
            /\ loc[p].shop # None => Issued(loc[p].st) /\ loc[p].shop = issued[loc[p].st]
            /\ ~Issued(loc[p].st) => loc[p].shop = None
    /\ \A p, q \in Procs :
        (p # q /\ HasPopped(p) /\ HasPopped(q) /\ loc[p].st = loc[q].st)
            => (loc[p].shop = None \/ loc[q].shop = None)

\* C2 witness: a state was consumed by one callback, which got its shop, and a
\* later consumption of the same value found nothing.
C2_Witness ==
    \E p, q \in Procs :
        /\ p # q
        /\ HasPopped(p)
        /\ HasPopped(q)
        /\ loc[p].st = loc[q].st
        /\ Issued(loc[p].st)
        /\ loc[p].shop = issued[loc[p].st]
        /\ loc[q].shop = None
        /\ consumed[loc[p].st] = 1

\* C3: a callback that is writing, or has written, a credential had its
\* signature verified, consumed its state and found it bound to the shop of
\* the request, carried a code and got a token from the exchange; the
\* credential goes under the shop the state was issued for.
C3_StoredOnlyAfterChecks ==
    \A p \in Procs :
        /\ (IsCallback(p) /\ pc[p] \in AfterCheck) =>
            /\ loc[p].ok
            /\ configured
            /\ Issued(loc[p].st)
            /\ loc[p].shop = issued[loc[p].st]
            /\ loc[p].shop = loc[p].inc
            /\ consumed[loc[p].st] >= 1
            /\ loc[p].code
        /\ (IsCallback(p) /\ pc[p] \in AfterCheck \ {"cb_exchange"}) =>
            loc[p].tok \in Tokens
        /\ (IsCallback(p) /\ pc[p] \in {"w_open", "w_write"}) =>
            /\ loc[p].shop \in DOMAIN loc[p].data
            /\ loc[p].data[loc[p].shop] = loc[p].tok
        /\ (IsCallback(p) /\ Answered(p) /\ loc[p].status = 302) =>
            /\ loc[p].ok
            /\ Issued(loc[p].st)
            /\ loc[p].shop = issued[loc[p].st]
            /\ consumed[loc[p].st] >= 1

\* C3 witness: a callback is about to write the credential of its shop.
C3_Witness ==
    \E p \in Procs :
        /\ IsCallback(p)
        /\ pc[p] = "w_write"
        /\ loc[p].shop = issued[loc[p].st]
        /\ loc[p].data[loc[p].shop] \in Tokens

\* C4: once a callback has consumed a state, that value is not in the
\* registry, whatever becomes of the callback afterwards, and it is never
\* consumed a second time.
C4_ConsumedStateGone ==
    \A p \in Procs :
        (HasPopped(p) /\ loc[p].shop # None) =>
            /\ loc[p].st \notin DOMAIN oauth_states
            /\ consumed[loc[p].st] = 1

\* C4 witness: a callback consumed its state and failed at the token exchange;
\* a later callback that presented the same state was rejected.
C4_Witness ==
    \E p, q \in Procs :
        /\ p # q
        /\ IsCallback(p)
        /\ Answered(p)
        /\ loc[p].status = 502
        /\ loc[p].shop # None
        /\ StateRejected(q)
        /\ loc[q].st = loc[p].st
        /\ loc[q].shop = None

\* The step in which p takes up a callback request.
CallbackArrives(p) ==
    /\ pc[p] = "idle"
    /\ loc'[p].h = "callback"
    /\ (pc'[p] # "idle" \/ loc'[p] # loc[p])

\* C5: a callback whose signature does not verify is answered 400 in the step
\* that takes it up, and that step leaves the registry, the consumption
\* counts and the credential file as they are: nothing is popped, no exchange
\* is started, nothing is written.
C5_InvalidSignatureNoEffect ==
    [][\A p \in Procs :
        (CallbackArrives(p) /\ configured /\ ~loc'[p].ok) =>
            /\ pc'[p] = "idle"
            /\ loc'[p].status = 400
            /\ loc'[p].detail = "Invalid HMAC"
            /\ loc'[p].shop = None
            /\ UNCHANGED <<oauth_states, consumed, file>>]_vars

\* C5 witness: a callback was rejected for its signature and the state it
\* named is still registered.
C5_Witness ==
    \E p \in Procs :
        /\ IsCallback(p)
        /\ Answered(p)
        /\ ~loc[p].ok
        /\ loc[p].detail = "Invalid HMAC"
        /\ loc[p].st \in DOMAIN oauth_states

\* The callback was answered with the redirect to the confirmation page.
Installed(p) == IsCallback(p) /\ Answered(p) /\ loc[p].status = 302

\* No write_text call is between its open and its write.
Quiescent == \A r \in Procs : pc[r] \notin {"gs_write", "w_write"}

\* What a reader gets of the file: the record set, none when the bytes are
\* not a JSON document or the file is not there.
Stored(f) == IF f.parsed THEN f.data ELSE EmptyDict

\* C6: when two installs for different shops have completed, and no write is
\* under way, the file holds a credential for both shops.  (Under Spec nothing
\* ever removes a credential.)
C6_BothInstallsStored ==
    \A p, q \in Procs :
        (/\ p # q
         /\ Installed(p)
         /\ Installed(q)
         /\ loc[p].shop # loc[q].shop
         /\ Quiescent)
        => /\ file.parsed
           /\ loc[p].shop \in DOMAIN file.data
           /\ loc[q].shop \in DOMAIN file.data

\* C7: no read of the file finds bytes that are not a complete record set,
\* neither next to a running writer nor after a crash: json.loads never
\* raises.
C7_NoTornRead ==
    \A p \in Procs : ~(Answered(p) /\ loc[p].detail = "JSONDecodeError")

\* A step of the request p serves.
StepOf(p) == pc'[p] # pc[p] \/ loc'[p] # loc[p]

\* C8: a step of a read path (chat, connected_shops) never changes which
\* shops are stored or their credentials.
C8_ReadersDoNotWrite ==
    [][\A p \in Procs :
        (loc[p].h \in Readers /\ pc[p] # "idle" /\ StepOf(p)) =>
            Stored(file') = Stored(file)]_vars

\* The callback was rejected at the state check although its state was
\* registered: the state was bound to another shop than the request's.
Mismatched(p) ==
    /\ IsCallback(p)
    /\ Answered(p)
    /\ loc[p].shop # None
    /\ loc[p].status = 400
    /\ loc[p].detail # "Missing code"

\* C9 as claimed: a callback rejected for a shop mismatch gets an outcome of
\* its own, not the "Invalid or expired state" of an unknown state.
C9_MismatchDistinct ==
    \A p \in Procs : Mismatched(p) => loc[p].detail # "Invalid or expired state"

\* C9 as amended: a callback with a valid signature whose state is registered
\* for another shop than the request's is answered 400 with the very outcome
\* of an unknown state, "Invalid or expired state", in the step that pops the
\* state: the state is consumed, and neither exchange nor write follows.
C9_MismatchSameOutcome ==
    [][\A p \in Procs :
        (/\ pc[p] = "cb_pop"
         /\ StepOf(p)
         /\ loc[p].st \in DOMAIN oauth_states
         /\ oauth_states[loc[p].st] # loc[p].inc)
        => /\ pc'[p] = "idle"
           /\ loc'[p].status = 400
           /\ loc'[p].detail = "Invalid or expired state"
           /\ loc'[p].shop = oauth_states[loc[p].st]
           /\ loc[p].st \notin DOMAIN oauth_states'
           /\ file' = file]_vars

\* C9 witness: a callback was rejected for a state bound to another shop.
C9_Witness ==
    \E p \in Procs : Mismatched(p) /\ loc[p].detail = "Invalid or expired state"

\* The state check of line 183 on the registry as it is.
Bound(p) ==
    /\ loc[p].st \in DOMAIN oauth_states
    /\ oauth_states[loc[p].st] = loc[p].inc

StartServed(p) ==
    /\ pc[p] = "idle"
    /\ loc'[p].h = "start"
    /\ StepOf(p)

\* C11: a start request is answered in the step that takes it up: 503 when
\* client id or secret is not configured, whatever the shop; else 400 when the
\* normalised shop is not a valid hostname; else 302 to the authorization URL.
\* The 503 and 400 answers leave the registry as it was.
C11_StartAnswers ==
    [][\A p \in Procs :
        StartServed(p) =>
            /\ pc'[p] = "idle"
            /\ ~configured =>
                    /\ loc'[p].status = 503
                    /\ loc'[p].shop = None
            /\ (configured /\ ~is_valid_shop_hostname(loc'[p].shop)) =>
                    /\ loc'[p].status = 400
                    /\ loc'[p].detail = "Invalid shop"
            /\ (configured /\ is_valid_shop_hostname(loc'[p].shop)) =>
                    /\ loc'[p].status = 302
                    /\ loc'[p].detail = "authorize"
            /\ loc'[p].status \in {400, 503} =>
                    /\ loc'[p].st = NoState
                    /\ UNCHANGED <<oauth_states, issued>>]_vars

\* C11 witness: one start request was refused for its shop, with nothing
\* registered for it, and another one was redirected.
C11_Witness ==
    \E p, q \in Procs :
        /\ p # q
        /\ loc[p].h = "start"
        /\ loc[p].status = 400
        /\ loc[p].shop = <<>>
        /\ loc[q].h = "start"
        /\ loc[q].status = 302
        /\ DOMAIN oauth_states = {loc[q].st}

\* C12: a start request answered 302 registered exactly one state: the value
\* in its URL was not outstanding before, the registry afterwards is the one
\* before plus that value, bound to the normalised (valid) shop of the request,
\* with every other entry as it was; and the redirect_uri parameter of the URL
\* does not end in a slash, whatever redirect URI was configured or passed.
C12_StartRegistersOne ==
    [][\A p \in Procs :
        (StartServed(p) /\ loc'[p].status = 302) =>
            /\ loc'[p].st \in States
            /\ loc'[p].st \notin DOMAIN oauth_states
            /\ DOMAIN oauth_states' = DOMAIN oauth_states \cup {loc'[p].st}
            /\ Cardinality(DOMAIN oauth_states') = Cardinality(DOMAIN oauth_states) + 1
            /\ oauth_states'[loc'[p].st] = loc'[p].shop
            /\ loc'[p].shop \in { normalize_shop(raw) : raw \in RawShops }
            /\ \A s \in DOMAIN oauth_states : oauth_states'[s] = oauth_states[s]
            /\ \A uri \in RedirectUris :
                    LET sent == redirect_uri_param(uri)
                    IN  sent = <<>> \/ sent[Len(sent)] # "/"]_vars

\* C12 witness: a second start request was redirected while the state of the
\* first was still outstanding; both are registered, each for its shop.
C12_Witness ==
    \E p, q \in Procs :
        /\ p # q
        /\ loc[p].h = "start"
        /\ loc[p].status = 302
        /\ loc[q].h = "start"
        /\ loc[q].status = 302
        /\ loc[p].st # loc[q].st
        /\ DOMAIN oauth_states = {loc[p].st, loc[q].st}
        /\ oauth_states[loc[p].st] = loc[p].shop
        /\ oauth_states[loc[q].st] = loc[q].shop
        /\ loc[p].shop # loc[q].shop

\* A finished call of normalize_shop.
Normalized(p) == loc[p].h = "normalize_shop"

\* C13: normalize_shop applied to a result of normalize_shop returns it
\* unchanged: normalize(normalize(x)) = normalize(x) for every input x.
C13_Idempotent ==
    \A p, q \in Procs :
        (Normalized(p) /\ Normalized(q) /\ loc[p].inc = loc[q].shop)
            => loc[p].shop = loc[p].inc

\* A valid label: not empty, alphanumerics and hyphens only, no hyphen first.
ValidLabel(lab) ==
    /\ lab # <<>>
    /\ \A i \in DOMAIN lab : IsAlNum(lab[i]) \/ lab[i] = "-"
    /\ lab[1] # "-"

HttpsScheme == <<"h","t","t","p","s",":","/","/">>

\* C14: for every valid label L, normalize_shop returns the lower-cased L
\* followed by the platform domain for the bare label in any letter case, for L
\* followed by the platform domain, and for the URL form https://L.domain/.
C14_CanonicalForms ==
    \A p \in Procs :
        Normalized(p) =>
            \A lab \in Labels :
                (/\ ValidLabel(lab)
                 /\ \/ /\ Len(loc[p].inc) = Len(lab)
                       /\ Lower(loc[p].inc) = Lower(lab)
                    \/ loc[p].inc = lab \o MYSHOPIFY
                    \/ loc[p].inc = HttpsScheme \o lab \o MYSHOPIFY \o <<"/">>)
                => loc[p].shop = Lower(lab) \o MYSHOPIFY

\* C14 witness: the three forms of a label with an upper-case letter were
\* normalised, the URL form among them, to the same lower-case hostname.
C14_Witness ==
    \E p, q \in Procs :
        /\ Normalized(p)
        /\ Normalized(q)
        /\ loc[q].inc = loc[p].shop
        /\ loc[q].shop = loc[p].shop
        /\ \E lab \in Labels :
            /\ ValidLabel(lab)
            /\ loc[p].inc = HttpsScheme \o lab \o MYSHOPIFY \o <<"/">>
            /\ lab # Lower(lab)
            /\ loc[p].shop = Lower(lab) \o MYSHOPIFY

\* A finished call of is_valid_shop_hostname.
Validated(p) == loc[p].h = "is_valid_shop_hostname"

\* The canonical shape: a valid label followed by the platform domain, and
\* nothing else.
CanonicalShape(hostname) ==
    /\ Len(hostname) > Len(MYSHOPIFY)
    /\ SubSeq(hostname, Len(hostname) - Len(MYSHOPIFY) + 1, Len(hostname)) = MYSHOPIFY
    /\ ValidLabel(SubSeq(hostname, 1, Len(hostname) - Len(MYSHOPIFY)))

\* C15: is_valid_shop_hostname is true exactly for a valid label followed by
\* the platform domain; it is false for an empty label, for any other
\* character (a scheme, a slash, a blank, a newline at the end) and for a
\* missing or different domain.
C15_ValidIffCanonical ==
    \A p \in Procs : Validated(p) => (loc[p].ok <=> CanonicalShape(loc[p].inc))

\* The step in which a call of a store function is made and returns to p.
Called(p, fn) == loc[p].h = "none" /\ loc'[p].h = fn

\* No credential but that of shop differs between the files f and g.
OthersKept(f, g, shop) ==
    \A s \in StoreShops \ {shop} : get_token_result(g, s) = get_token_result(f, s)

\* C16: in a series of store calls made one after the other, a put makes get
\* of its shop return its credential and leaves every other shop's as it was;
\* a remove returns whether the shop was stored, makes get of it absent and
\* leaves the others; get and list change nothing, and list returns exactly
\* the shops get finds a credential for.  (So get returns the latest put that
\* no remove followed, and nothing before the first put.)
C16_SequentialStore ==
    [][\A p \in Procs :
        /\ Called(p, "save_token") =>
            /\ get_token_result(file', loc'[p].shop) = loc'[p].tok
            /\ loc'[p].tok \in Tokens
            /\ OthersKept(file, file', loc'[p].shop)
        /\ Called(p, "remove_shop") =>
            /\ loc'[p].ok = (get_token_result(file, loc'[p].shop) # None)
            /\ get_token_result(file', loc'[p].shop) = None
            /\ OthersKept(file, file', loc'[p].shop)
        /\ Called(p, "get_token") =>
            /\ loc'[p].tok = IF loc'[p].shop \in DOMAIN Stored(file)
                             THEN Stored(file)[loc'[p].shop]
                             ELSE None
            /\ Stored(file') = Stored(file)
        /\ Called(p, "get_stored_shops") =>
            /\ DOMAIN loc'[p].data = { s \in StoreShops : get_token_result(file, s) # None }
            /\ Stored(file') = Stored(file)]_vars

\* C16 witness: after some puts and removes, get returned a credential for a
\* shop and list returned that shop alone, with the credential the file holds.
C16_Witness ==
    \E p, q \in Procs :
        /\ p # q
        /\ loc[p].h = "get_token"
        /\ loc[p].tok \in Tokens
        /\ loc[q].h = "get_stored_shops"
        /\ DOMAIN loc[q].data = {loc[p].shop}
        /\ loc[q].data[loc[p].shop] = loc[p].tok
        /\ Stored(file) = loc[q].data

\* The step in which the disconnect request p serves is answered.
DisconnectAnswered(p) ==
    /\ loc[p].h = "disconnect"
    /\ pc[p] # "idle"
    /\ pc'[p] = "idle"

C18_ExchangeOnce ==
    [][\A p \in Procs :
        /\ (pc'[p] = "cb_exchange" /\ pc[p] # "cb_exchange") =>
            /\ pc[p] = "cb_pop"
            /\ loc[p].st \in DOMAIN oauth_states
            /\ loc[p].st \notin DOMAIN oauth_states'
            /\ loc'[p].tok = None
        /\ (pc[p] = "cb_exchange" /\ StepOf(p)) =>
            /\ UNCHANGED <<oauth_states, consumed, file>>
            /\ loc[p].st \notin DOMAIN oauth_states
            /\ consumed[loc[p].st] = 1
            /\ \/ /\ pc'[p] = "idle"
                  /\ loc'[p].status = 502
                  /\ loc'[p].detail = "Could not get token"
               \/ /\ pc'[p] = "gs"
                  /\ loc'[p].tok \in Tokens]_vars

\* C18 witness: a callback failed at the exchange with 502, and the shop was
\* connected by another callback, with the state of a second start request.
C18_Witness ==
    \E p, q \in Procs :
        /\ p # q
        /\ IsCallback(p)
        /\ Answered(p)
        /\ loc[p].status = 502
        /\ Installed(q)
        /\ loc[q].shop = loc[p].shop
        /\ loc[q].st # loc[p].st
        /\ file.parsed
        /\ loc[q].shop \in DOMAIN file.data

\* C19: a callback is answered the 302 redirect only if, as it is answered,
\* the credential the exchange returned can be read from the file under the
\* callback's shop.
C19_RedirectMeansReadable ==
    [][\A p \in Procs :
        (StepOf(p) /\ loc'[p].h = "callback" /\ loc'[p].status = 302) =>
            /\ file'.parsed
            /\ loc[p].shop \in DOMAIN file'.data
            /\ file'.data[loc[p].shop] = loc[p].tok]_vars

\* A hostname that passes validation and that normalisation leaves as it is.
CanonicalShop(shop) ==
    /\ is_valid_shop_hostname(shop)
    /\ normalize_shop(shop) = shop

\* Whatever identifier a start request carries, the normalised shop that line
\* 159 lets through is one that normalisation leaves as it is.
AdmittedShopsCanonical ==
    \A raw \in ShopInputs \cup RawShops :
        is_valid_shop_hostname(normalize_shop(raw)) => CanonicalShop(normalize_shop(raw))

\* C20: every shop the registry holds or has held, every key of the
\* credential file and every key of a dict a callback is writing is a valid
\* hostname and a fixed point of normalize_shop; and so is every shop a start
\* request can register, whatever identifier it is given.
C20_CanonicalShopsOnly ==
    /\ \A s \in DOMAIN oauth_states : CanonicalShop(oauth_states[s])
    /\ \A i \in DOMAIN issued : CanonicalShop(issued[i])
    /\ \A k \in DOMAIN file.data : CanonicalShop(k)
    /\ \A p \in Procs :
        (IsCallback(p) /\ pc[p] \in {"w_open", "w_write"}) =>
            \A k \in DOMAIN loc[p].data : CanonicalShop(k)
    /\ AdmittedShopsCanonical

\* C20 witness: a credential is stored under the canonical hostname of a shop
\* that was given as a bare upper-case label, while the registry holds the
\* canonical hostname of a shop given as a URL.
C20_Witness ==
    /\ file.parsed
    /\ normalize_shop(<<"A">>) \in DOMAIN file.data
    /\ <<"A">> \notin DOMAIN file.data
    /\ \E s \in DOMAIN oauth_states :
        /\ oauth_states[s] # normalize_shop(<<"A">>)
        /\ oauth_states[s] \notin RawShops

\* A call of get_order_by_number_and_email that returned an order.
OrderReturned(p) ==
    /\ loc[p].h = "get_order_by_number_and_email"
    /\ loc[p].st # 0

\* C21: when a non-empty order number and a non-empty email are given, the
\* order get_order_by_number_and_email returns has that number and that
\* email (in any letter case); an order is returned for its number alone
\* only when no email was given.
C21_OrderMatchesBoth ==
    \A p \in Procs :
        (/\ OrderReturned(p)
         /\ order_num_of(loc[p].inc) # <<>>
         /\ email_lower_of(loc[p].shop) # <<>>)
        => /\ Strip(loc[p].data[loc[p].st][1]) = order_num_of(loc[p].inc)
           /\ Lower(loc[p].data[loc[p].st][2]) = email_lower_of(loc[p].shop)

====
